---- MODULE Spec2Model ----
(***************************************************************************)
(* pyo3avro-rs: the Schema class of src/lib.rs.  Schema::write turns a     *)
(* Python object into an avro_rs Value (to_avro_value) and the Value into  *)
(* bytes (to_avro_datum); Schema::read turns bytes into a Value            *)
(* (from_avro_datum) and the Value into a Python object (to_pyobject).     *)
(*                                                                         *)
(* Python objects are pairs <<type, payload>>; avro_rs Values and Schemas  *)
(* are records tagged t / kind; a PyResult is <<"Ok", v>> or <<"Err", e>>. *)
(***************************************************************************)
EXTENDS Integers, Sequences, FiniteSets, TLC

(***************************************************************************)
(* Bounds.  The integers of the model are 32 bits wide, so the machine     *)
(* widths are scaled down, keeping u8 < i32 < i64 = usize.                 *)
(***************************************************************************)
ByteBits == 2
IntBits == 3
LongBits == 5
\* A Python float q stands for q / FracSteps; an f32 holds only the whole
\* multiples of FracSteps (single precision drops the low fraction bits).
FracSteps == 2
\* Longest Python list and largest Python dict among the inputs.
MaxListLen == 2
MaxDictLen == 3

RECURSIVE Pow2(_)
Pow2(n) == IF n = 0 THEN 1 ELSE 2 * Pow2(n - 1)

U8Max == Pow2(ByteBits) - 1
I32Max == Pow2(IntBits - 1) - 1
I32Min == 0 - Pow2(IntBits - 1)
I64Max == Pow2(LongBits - 1) - 1
I64Min == 0 - Pow2(LongBits - 1)
UsizeMod == Pow2(LongBits)

Range(s) == {s[i] : i \in 1..Len(s)}

(***************************************************************************)
(* PyResult                                                                *)
(***************************************************************************)
Ok(v) == <<"Ok", v>>
Err(e) == <<"Err", e>>
IsOk(r) == r[1] = "Ok"
\* Every encode-time error is a Python TypeError (PyDowncastError, a failed
\* extract) or an OverflowError (an integer extract out of range).
TypeError == Err("TypeError")
OverflowError == Err("OverflowError")
ValueError == Err("ValueError")

(***************************************************************************)
(* Python objects                                                          *)
(***************************************************************************)
PyNone == <<"none", <<>>>>
PyBool(b) == <<"bool", b>>
PyInt(n) == <<"int", n>>
PyFloat(q) == <<"float", q>>
PyStr(s) == <<"str", s>>
PyBytesObj(bs) == <<"bytes", bs>>
PyListObj(items) == <<"list", items>>
\* A dict is the sequence of its <<key, value>> entries in insertion order;
\* its keys are distinct.
PyDictObj(entries) == <<"dict", entries>>

\* The text universe: every str is one character long.  A dict key outside
\* it stands for a key that is not a str.
TextList == <<"A", "B", "a", "b", "z">>
IsText(k) == k \in Range(TextList)
NonTextKey == "#7"

is_none(datum) == datum[1] = "none"

\* PyDict::get_item
HasKey(entries, key) == \E i \in 1..Len(entries) : entries[i][1] = key
get_item(entries, key) == entries[CHOOSE i \in 1..Len(entries) : entries[i][1] = key][2]

(***************************************************************************)
(* avro_rs::types::Value                                                   *)
(***************************************************************************)
VNull == [t |-> "Null"]
VBoolean(b) == [t |-> "Boolean", b |-> b]
VInt(n) == [t |-> "Int", n |-> n]
VLong(n) == [t |-> "Long", n |-> n]
VFloat(x) == [t |-> "Float", x |-> x]
VDouble(x) == [t |-> "Double", x |-> x]
VBytes(bs) == [t |-> "Bytes", bytes |-> bs]
VString(s) == [t |-> "String", s |-> s]
VFixed(n, bs) == [t |-> "Fixed", size |-> n, bytes |-> bs]
VEnum(i, s) == [t |-> "Enum", ordinal |-> i, symbol |-> s]
VUnion(v) == [t |-> "Union", item |-> v]
VArray(items) == [t |-> "Array", items |-> items]
\* HashMap<String, Value>: a function from its keys
VMap(m) == [t |-> "Map", entries |-> m]
\* Vec<(String, Value)>
VRecord(fields) == [t |-> "Record", fields |-> fields]

(***************************************************************************)
(* avro_rs::Schema                                                         *)
(***************************************************************************)
SPrim(k) == [kind |-> k]
SArray(s) == [kind |-> "Array", items |-> s]
SMap(s) == [kind |-> "Map", values |-> s]
SUnion(vs) == [kind |-> "Union", variants |-> vs]
SField(n, s) == [name |-> n, schema |-> s]
SRecord(fs) == [kind |-> "Record", fields |-> fs]
SEnum(syms) == [kind |-> "Enum", symbols |-> syms]
SFixed(n) == [kind |-> "Fixed", size |-> n]

(***************************************************************************)
(* pyo3 conversions from Python: FromPyObject::extract, cast_as            *)
(***************************************************************************)
IsPyLong(datum) == datum[1] \in {"int", "bool"}
\* bool is a subclass of int: True is 1 and False is 0
LongOf(datum) == IF datum[1] = "bool" THEN (IF datum[2] THEN 1 ELSE 0) ELSE datum[2]

ExtractBool(datum) == IF datum[1] = "bool" THEN Ok(datum[2]) ELSE TypeError

ExtractInRange(datum, lo, hi) ==
    IF ~IsPyLong(datum) THEN TypeError
    ELSE IF LongOf(datum) < lo \/ LongOf(datum) > hi THEN OverflowError
    ELSE Ok(LongOf(datum))

ExtractI32(datum) == ExtractInRange(datum, I32Min, I32Max)
ExtractI64(datum) == ExtractInRange(datum, I64Min, I64Max)
ExtractU8(datum) == ExtractInRange(datum, 0, U8Max)

\* f64: a float, or an int through __float__
ExtractF64(datum) ==
    IF datum[1] = "float" THEN Ok(datum[2])
    ELSE IF IsPyLong(datum) THEN Ok(LongOf(datum) * FracSteps)
    ELSE TypeError

\* f64 as f32: rounds, never fails
AsF32(q) == q - (q % FracSteps)
ExtractF32(datum) == IF IsOk(ExtractF64(datum)) THEN Ok(AsF32(ExtractF64(datum)[2])) ELSE TypeError

ExtractString(datum) == IF datum[1] = "str" THEN Ok(datum[2]) ELSE TypeError

\* The items of a Python sequence: a list, the bytes of a bytes object, the
\* characters of a str.
IsPySequence(datum) == datum[1] \in {"list", "bytes", "str"}
SequenceItems(datum) ==
    CASE datum[1] = "list" -> datum[2]
      [] datum[1] = "bytes" -> [i \in 1..Len(datum[2]) |-> PyInt(datum[2][i])]
      [] datum[1] = "str" -> <<PyStr(datum[2])>>

ExtractVecPyObject(datum) == IF IsPySequence(datum) THEN Ok(SequenceItems(datum)) ELSE TypeError

ExtractVecU8(datum) ==
    IF ~IsPySequence(datum) THEN TypeError
    ELSE LET items == SequenceItems(datum)
             bad == {i \in 1..Len(items) : ~IsOk(ExtractU8(items[i]))}
         IN IF bad # {}
            THEN ExtractU8(items[CHOOSE i \in bad : \A j \in bad : i <= j])
            ELSE Ok([i \in 1..Len(items) |-> ExtractU8(items[i])[2]])

CastAsPyDict(datum) == IF datum[1] = "dict" THEN Ok(datum[2]) ELSE TypeError

\* Mutant of AsUsize: the magnitude of the index instead of its sign extension
AsUsizeAbs(n) == IF n < 0 THEN 0 - n ELSE n

\* i32 as usize: sign extension, so a negative index becomes a huge one
AsUsize(n) == n % UsizeMod

\* UnionSchema::is_nullable of avro-rs: "returns true if the first variant of
\* this UnionSchema is Null"
is_nullable(variants) == Len(variants) > 0 /\ variants[1].kind = "Null"

(***************************************************************************)
(* to_avro_value (lib.rs 95-208), one operator per match arm               *)
(***************************************************************************)
RECURSIVE to_avro_value(_, _)
RECURSIVE ArrayArm(_, _)
RECURSIVE MapArm(_, _)
RECURSIVE UnionArm(_, _)
RECURSIVE RecordArm(_, _)

\* The first error of a sequence of results, in iteration order
FirstErr(rs) == rs[CHOOSE i \in 1..Len(rs) : ~IsOk(rs[i]) /\ \A j \in 1..(i - 1) : IsOk(rs[j])]
AllOk(rs) == \A i \in 1..Len(rs) : IsOk(rs[i])

NullArm(datum) == IF is_none(datum) THEN Ok(VNull) ELSE TypeError

BooleanArm(datum) ==
    LET b == ExtractBool(datum) IN IF IsOk(b) THEN Ok(VBoolean(b[2])) ELSE b

IntArm(datum) ==
    LET n == ExtractI32(datum) IN IF IsOk(n) THEN Ok(VInt(n[2])) ELSE n

LongArm(datum) ==
    LET n == ExtractI64(datum) IN IF IsOk(n) THEN Ok(VLong(n[2])) ELSE n

FloatArm(datum) ==
    LET x == ExtractF32(datum) IN IF IsOk(x) THEN Ok(VFloat(x[2])) ELSE x

DoubleArm(datum) ==
    LET x == ExtractF64(datum) IN IF IsOk(x) THEN Ok(VDouble(x[2])) ELSE x

BytesArm(datum) ==
    LET bytes == ExtractVecU8(datum) IN IF IsOk(bytes) THEN Ok(VBytes(bytes[2])) ELSE bytes

StringArm(datum) ==
    LET string == ExtractString(datum) IN IF IsOk(string) THEN Ok(VString(string[2])) ELSE string

\* Mutant of ArrayArm: the elements that fail are left out
ArrayArmSkipping(datum, schema) ==
    LET array == ExtractVecPyObject(datum) IN
    IF ~IsOk(array) THEN array
    ELSE LET items == [i \in 1..Len(array[2]) |-> to_avro_value(array[2][i], schema.items)]
             good == SelectSeq(items, IsOk)
         IN Ok(VArray([i \in 1..Len(good) |-> good[i][2]]))

ArrayArm(datum, schema) ==
    LET array == ExtractVecPyObject(datum) IN
    IF ~IsOk(array) THEN array
    ELSE LET items == [i \in 1..Len(array[2]) |-> to_avro_value(array[2][i], schema.items)]
         IN IF ~AllOk(items) THEN FirstErr(items)
            ELSE Ok(VArray([i \in 1..Len(items) |-> items[i][2]]))

\* One entry of the dict: the key as a String, then the value
MapEntry(entry, inner) ==
    IF ~IsText(entry[1]) THEN TypeError ELSE to_avro_value(entry[2], inner)

MapArm(datum, schema) ==
    LET dict == CastAsPyDict(datum) IN
    IF ~IsOk(dict) THEN dict
    ELSE LET items == [i \in 1..Len(dict[2]) |-> MapEntry(dict[2][i], schema.values)]
         IN IF ~AllOk(items) THEN FirstErr(items)
            ELSE Ok(VMap([k \in {dict[2][i][1] : i \in 1..Len(dict[2])} |->
                             to_avro_value(get_item(dict[2], k), schema.values)[2]]))

\* The variants the loop of lines 158-164 tries: up to the first that encodes
UnionTried(datum, variants) ==
    LET won == {i \in 1..Len(variants) : IsOk(to_avro_value(datum, variants[i]))}
    IN IF won = {} THEN 1..Len(variants)
       ELSE 1..(CHOOSE i \in won : \A j \in won : i <= j)

\* Mutant of UnionAttempts: no shortcut, None is tried on every variant too
UnionAttemptsNoShortcut(datum, variants) == UnionTried(datum, variants)

\* The variants to_avro_value is called on (line 159) for this datum: none
\* when the nullable shortcut of line 154 applies
UnionAttempts(datum, variants) ==
    IF is_nullable(variants) /\ is_none(datum) THEN {} ELSE UnionTried(datum, variants)

\* Mutant of UnionArm: the last variant that encodes the datum wins
UnionArmLastMatch(datum, schema) ==
    IF is_nullable(schema.variants) /\ is_none(datum) THEN Ok(VUnion(VNull))
    ELSE LET won == {i \in 1..Len(schema.variants) : IsOk(to_avro_value(datum, schema.variants[i]))}
         IN IF won = {} THEN TypeError
            ELSE Ok(VUnion(to_avro_value(datum,
                     schema.variants[CHOOSE i \in won : \A j \in won : j <= i])[2]))

UnionArm(datum, schema) ==
    IF is_nullable(schema.variants) /\ is_none(datum) THEN Ok(VUnion(VNull))
    ELSE LET tried == UnionAttempts(datum, schema.variants)
             last == IF tried = {} THEN TypeError
                     ELSE to_avro_value(datum, schema.variants[Cardinality(tried)])
         IN IF IsOk(last) THEN Ok(VUnion(last[2])) ELSE TypeError

\* Mutant of RecordArm: the fields come out in the order of the dict's keys
RecordArmDictOrder(datum, schema) ==
    LET record_dict == CastAsPyDict(datum)
        fields == schema.fields IN
    IF ~IsOk(record_dict) THEN record_dict
    ELSE LET names == {fields[i].name : i \in 1..Len(fields)}
             found == SelectSeq(record_dict[2], LAMBDA e : e[1] \in names)
             SchemaOf(name) == fields[CHOOSE i \in 1..Len(fields) : fields[i].name = name].schema
             rs == [i \in 1..Len(found) |-> to_avro_value(found[i][2], SchemaOf(found[i][1]))]
         IN IF Len(found) < Len(fields) THEN TypeError
            ELSE IF ~AllOk(rs) THEN FirstErr(rs)
            ELSE Ok(VRecord([i \in 1..Len(found) |-> <<found[i][1], rs[i][2]>>]))

\* Mutant of RecordArm: a nullable field the dict lacks is taken to be None
RecordArmDefaultNull(datum, schema) ==
    LET record_dict == CastAsPyDict(datum)
        fields == schema.fields IN
    IF ~IsOk(record_dict) THEN record_dict
    ELSE LET rs == [i \in 1..Len(fields) |->
                       IF HasKey(record_dict[2], fields[i].name)
                       THEN to_avro_value(get_item(record_dict[2], fields[i].name), fields[i].schema)
                       ELSE IF fields[i].schema.kind = "Union"
                       THEN to_avro_value(PyNone, fields[i].schema)
                       ELSE TypeError]
         IN IF ~AllOk(rs) THEN FirstErr(rs)
            ELSE Ok(VRecord([i \in 1..Len(fields) |-> <<fields[i].name, rs[i][2]>>]))

RecordArm(datum, schema) ==
    LET record_dict == CastAsPyDict(datum)
        fields == schema.fields IN
    IF ~IsOk(record_dict) THEN record_dict
    ELSE LET rs == [i \in 1..Len(fields) |->
                       IF HasKey(record_dict[2], fields[i].name)
                       THEN to_avro_value(get_item(record_dict[2], fields[i].name), fields[i].schema)
                       ELSE TypeError]
         IN IF ~AllOk(rs) THEN FirstErr(rs)
            ELSE Ok(VRecord([i \in 1..Len(fields) |-> <<fields[i].name, rs[i][2]>>]))

\* Mutant of Position: the index counted from one
PositionOneBased(symbols, string) ==
    CHOOSE i \in 1..Len(symbols) :
        symbols[i] = string /\ \A j \in 1..(i - 1) : symbols[j] # string

\* symbols.iter().position(...): the zero-based index of the first match
Position(symbols, string) ==
    (CHOOSE i \in 1..Len(symbols) :
        symbols[i] = string /\ \A j \in 1..(i - 1) : symbols[j] # string) - 1

\* The enum value of a zero-based index (lines 195-199)
EnumByIndex(index, symbols) ==
    IF index < Len(symbols) THEN Ok(VEnum(index, symbols[index + 1])) ELSE TypeError

EnumArm(datum, schema) ==
    LET string == ExtractString(datum)
        symbols == schema.symbols IN
    IF IsOk(string)
    THEN IF string[2] \in Range(symbols)
         THEN Ok(VEnum(Position(symbols, string[2]), string[2]))
         ELSE TypeError
    ELSE LET n == ExtractI32(datum) IN
         IF ~IsOk(n) THEN n
         ELSE EnumByIndex(AsUsize(n[2]), symbols)

FixedArm(datum) ==
    LET bytes == ExtractVecU8(datum) IN
    IF IsOk(bytes) THEN Ok(VFixed(Len(bytes[2]), bytes[2])) ELSE bytes

to_avro_value(datum, schema) ==
    CASE schema.kind = "Null" -> NullArm(datum)
      [] schema.kind = "Boolean" -> BooleanArm(datum)
      [] schema.kind = "Int" -> IntArm(datum)
      [] schema.kind = "Long" -> LongArm(datum)
      [] schema.kind = "Float" -> FloatArm(datum)
      [] schema.kind = "Double" -> DoubleArm(datum)
      [] schema.kind = "Bytes" -> BytesArm(datum)
      [] schema.kind = "String" -> StringArm(datum)
      [] schema.kind = "Array" -> ArrayArm(datum, schema)
      [] schema.kind = "Map" -> MapArm(datum, schema)
      [] schema.kind = "Union" -> UnionArm(datum, schema)
      [] schema.kind = "Record" -> RecordArm(datum, schema)
      [] schema.kind = "Enum" -> EnumArm(datum, schema)
      [] schema.kind = "Fixed" -> FixedArm(datum)
      [] OTHER -> Ok(VNull)

(***************************************************************************)
(* to_pyobject (lib.rs 55-93)                                              *)
(***************************************************************************)
\* Vec<u8>::to_object: a Python list of ints
BytesToObject(bs) == PyListObj([i \in 1..Len(bs) |-> PyInt(bs[i])])

\* PyDict::set_item: a new key goes last, an old key keeps its place
set_item(entries, key, value) ==
    IF HasKey(entries, key)
    THEN [i \in 1..Len(entries) |-> IF entries[i][1] = key THEN <<key, value>> ELSE entries[i]]
    ELSE Append(entries, <<key, value>>)

\* The keys of a HashMap in the order one iteration visits them
RECURSIVE IterOrder(_)
IterOrder(keys) ==
    IF keys = {} THEN <<>>
    ELSE LET k == CHOOSE x \in keys : TRUE IN <<k>> \o IterOrder(keys \ {k})

RECURSIVE to_pyobject(_)
RECURSIVE RecordToDict(_, _)

\* Mutant of FixedToObject: the size goes out with the bytes
FixedToObjectWithSize(datum) ==
    PyListObj(<<PyInt(datum.size), BytesToObject(datum.bytes)>>)
\* Mutant of EnumToObject: the ordinal goes out, not the symbol
EnumToObjectOrdinal(datum) == PyInt(datum.ordinal)
\* Mutant of UnionToObject: the item goes out wrapped in a list
UnionToObjectWrapped(datum) == PyListObj(<<to_pyobject(datum.item)>>)

FixedToObject(datum) == BytesToObject(datum.bytes)
EnumToObject(datum) == PyStr(datum.symbol)
UnionToObject(datum) == to_pyobject(datum.item)

RecordToDict(fields, dict) ==
    IF fields = <<>> THEN dict
    ELSE RecordToDict(Tail(fields), set_item(dict, Head(fields)[1], to_pyobject(Head(fields)[2])))

MapToDict(m) ==
    LET order == IterOrder(DOMAIN m)
    IN [i \in 1..Len(order) |-> <<order[i], to_pyobject(m[order[i]])>>]

to_pyobject(datum) ==
    CASE datum.t = "Null" -> PyNone
      [] datum.t = "Boolean" -> PyBool(datum.b)
      [] datum.t = "Int" -> PyInt(datum.n)
      [] datum.t = "Long" -> PyInt(datum.n)
      [] datum.t = "Float" -> PyFloat(datum.x)
      [] datum.t = "Double" -> PyFloat(datum.x)
      [] datum.t = "Bytes" -> BytesToObject(datum.bytes)
      [] datum.t = "String" -> PyStr(datum.s)
      [] datum.t = "Fixed" -> FixedToObject(datum)
      [] datum.t = "Enum" -> EnumToObject(datum)
      [] datum.t = "Union" -> UnionToObject(datum)
      [] datum.t = "Array" -> PyListObj([i \in 1..Len(datum.items) |-> to_pyobject(datum.items[i])])
      [] datum.t = "Map" -> PyDictObj(MapToDict(datum.entries))
      [] datum.t = "Record" -> PyDictObj(RecordToDict(datum.fields, <<>>))
      [] OTHER -> PyNone

(***************************************************************************)
(* The binary codec of avro-rs, called at lib.rs 34 and 45.  A datum is a  *)
(* sequence of tokens: one token per varint, per float, per byte.          *)
(***************************************************************************)
ZigZag(n) == IF n >= 0 THEN 2 * n ELSE (0 - 2 * n) - 1
UnZigZag(z) == IF z % 2 = 0 THEN z \div 2 ELSE 0 - ((z + 1) \div 2)

TextCode(s) == CHOOSE i \in 1..Len(TextList) : TextList[i] = s

\* UnionSchema::find_schema: the variant of the value's kind, zero-based
HasVariant(variants, value) == \E i \in 1..Len(variants) : variants[i].kind = value.t
VariantIndex(variants, value) == (CHOOSE i \in 1..Len(variants) : variants[i].kind = value.t) - 1

\* Value::validate
RECURSIVE validate(_, _)
validate(value, schema) ==
    IF value.t # schema.kind THEN FALSE
    ELSE CASE value.t = "Fixed" -> value.size = schema.size
           [] value.t = "Enum" ->
                /\ value.ordinal >= 0 /\ value.ordinal < Len(schema.symbols)
                /\ schema.symbols[value.ordinal + 1] = value.symbol
           [] value.t = "Union" -> HasVariant(schema.variants, value.item)
           [] value.t = "Array" ->
                \A i \in 1..Len(value.items) : validate(value.items[i], schema.items)
           [] value.t = "Map" ->
                \A k \in DOMAIN value.entries : validate(value.entries[k], schema.values)
           [] value.t = "Record" ->
                /\ Len(value.fields) = Len(schema.fields)
                /\ \A i \in 1..Len(schema.fields) :
                     /\ schema.fields[i].name = value.fields[i][1]
                     /\ validate(value.fields[i][2], schema.fields[i].schema)
           [] OTHER -> TRUE

RECURSIVE Concat(_)
Concat(seqs) == IF seqs = <<>> THEN <<>> ELSE Head(seqs) \o Concat(Tail(seqs))

EncodeString(s) == <<ZigZag(1), TextCode(s)>>

\* encode_ref
RECURSIVE encode(_, _)
encode(value, schema) ==
    CASE value.t = "Null" -> <<>>
      [] value.t = "Boolean" -> <<IF value.b THEN 1 ELSE 0>>
      [] value.t \in {"Int", "Long"} -> <<ZigZag(value.n)>>
      [] value.t \in {"Float", "Double"} -> <<value.x>>
      [] value.t = "Bytes" -> <<ZigZag(Len(value.bytes))>> \o value.bytes
      [] value.t = "String" -> EncodeString(value.s)
      [] value.t = "Fixed" -> value.bytes
      [] value.t = "Enum" -> <<ZigZag(value.ordinal)>>
      [] value.t = "Union" ->
           LET idx == VariantIndex(schema.variants, value.item)
           IN <<ZigZag(idx)>> \o encode(value.item, schema.variants[idx + 1])
      [] value.t = "Array" ->
           IF value.items = <<>> THEN <<0>>
           ELSE <<ZigZag(Len(value.items))>>
                \o Concat([i \in 1..Len(value.items) |-> encode(value.items[i], schema.items)])
                \o <<0>>
      [] value.t = "Map" ->
           LET order == IterOrder(DOMAIN value.entries) IN
           IF order = <<>> THEN <<0>>
           ELSE <<ZigZag(Len(order))>>
                \o Concat([i \in 1..Len(order) |->
                      EncodeString(order[i]) \o encode(value.entries[order[i]], schema.values)])
                \o <<0>>
      [] value.t = "Record" ->
           Concat([i \in 1..Len(value.fields) |->
                      encode(value.fields[i][2], schema.fields[i].schema)])

\* to_avro_datum: validate, then encode
to_avro_datum(schema, value) ==
    IF validate(value, schema) THEN Ok(encode(value, schema)) ELSE ValueError

\* One varint
ReadLong(bytes) ==
    IF bytes = <<>> THEN ValueError
    ELSE IF Head(bytes) < 0 THEN ValueError
    ELSE Ok(<<UnZigZag(Head(bytes)), Tail(bytes)>>)

\* A length-prefixed text of the text universe
DecodeString(bytes) ==
    LET len == ReadLong(bytes) IN
    IF ~IsOk(len) THEN ValueError
    ELSE IF len[2][1] # 1 \/ len[2][2] = <<>> THEN ValueError
    ELSE IF Head(len[2][2]) \notin 1..Len(TextList) THEN ValueError
    ELSE Ok(<<TextList[Head(len[2][2])], Tail(len[2][2])>>)

Take(bytes, n) == SubSeq(bytes, 1, n)
Drop(bytes, n) == SubSeq(bytes, n + 1, Len(bytes))

\* decode: Ok(<<value, the bytes left>>) or an error
RECURSIVE decode(_, _)
RECURSIVE DecodeItems(_, _, _, _)
RECURSIVE DecodeArrayBlocks(_, _, _)
RECURSIVE DecodeEntries(_, _, _, _)
RECURSIVE DecodeMapBlocks(_, _, _)
RECURSIVE DecodeFields(_, _, _)

\* `count` items of one array block, after `acc`
DecodeItems(schema, bytes, count, acc) ==
    IF count = 0 THEN Ok(<<acc, bytes>>)
    ELSE LET item == decode(schema, bytes) IN
         IF ~IsOk(item) THEN ValueError
         ELSE DecodeItems(schema, item[2][2], count - 1, Append(acc, item[2][1]))

\* The size of the next block: a negative count is followed by a byte size
BlockHeader(bytes) ==
    LET len == ReadLong(bytes) IN
    IF ~IsOk(len) THEN ValueError
    ELSE IF len[2][1] >= 0 THEN len
    ELSE IF len[2][2] = <<>> THEN ValueError
    ELSE Ok(<<0 - len[2][1], Tail(len[2][2])>>)

DecodeArrayBlocks(schema, bytes, acc) ==
    LET len == BlockHeader(bytes) IN
    IF ~IsOk(len) THEN ValueError
    ELSE IF len[2][1] = 0 THEN Ok(<<VArray(acc), len[2][2]>>)
    ELSE LET block == DecodeItems(schema, len[2][2], len[2][1], acc) IN
         IF ~IsOk(block) THEN ValueError
         ELSE DecodeArrayBlocks(schema, block[2][2], block[2][1])

DecodeEntries(schema, bytes, count, acc) ==
    IF count = 0 THEN Ok(<<acc, bytes>>)
    ELSE LET key == DecodeString(bytes) IN
         IF ~IsOk(key) THEN ValueError
         ELSE LET value == decode(schema, key[2][2]) IN
              IF ~IsOk(value) THEN ValueError
              ELSE DecodeEntries(schema, value[2][2], count - 1,
                      [k \in DOMAIN acc \cup {key[2][1]} |->
                          IF k = key[2][1] THEN value[2][1] ELSE acc[k]])

DecodeMapBlocks(schema, bytes, acc) ==
    LET len == BlockHeader(bytes) IN
    IF ~IsOk(len) THEN ValueError
    ELSE IF len[2][1] = 0 THEN Ok(<<VMap(acc), len[2][2]>>)
    ELSE LET block == DecodeEntries(schema, len[2][2], len[2][1], acc) IN
         IF ~IsOk(block) THEN ValueError
         ELSE DecodeMapBlocks(schema, block[2][2], block[2][1])

DecodeFields(fields, bytes, acc) ==
    IF fields = <<>> THEN Ok(<<VRecord(acc), bytes>>)
    ELSE LET value == decode(Head(fields).schema, bytes) IN
         IF ~IsOk(value) THEN ValueError
         ELSE DecodeFields(Tail(fields), value[2][2],
                 Append(acc, <<Head(fields).name, value[2][1]>>))

DecodeLong(bytes, lo, hi) ==
    LET n == ReadLong(bytes) IN
    IF ~IsOk(n) THEN ValueError
    ELSE IF n[2][1] < lo \/ n[2][1] > hi THEN ValueError
    ELSE n

EmptyMap == [k \in {} |-> VNull]

decode(schema, bytes) ==
    CASE schema.kind = "Null" -> Ok(<<VNull, bytes>>)
      [] schema.kind = "Boolean" ->
           IF bytes = <<>> THEN ValueError
           ELSE IF Head(bytes) \notin {0, 1} THEN ValueError
           ELSE Ok(<<VBoolean(Head(bytes) = 1), Tail(bytes)>>)
      [] schema.kind = "Int" ->
           LET n == DecodeLong(bytes, I32Min, I32Max)
           IN IF IsOk(n) THEN Ok(<<VInt(n[2][1]), n[2][2]>>) ELSE ValueError
      [] schema.kind = "Long" ->
           LET n == DecodeLong(bytes, I64Min, I64Max)
           IN IF IsOk(n) THEN Ok(<<VLong(n[2][1]), n[2][2]>>) ELSE ValueError
      [] schema.kind = "Float" ->
           IF bytes = <<>> THEN ValueError ELSE Ok(<<VFloat(Head(bytes)), Tail(bytes)>>)
      [] schema.kind = "Double" ->
           IF bytes = <<>> THEN ValueError ELSE Ok(<<VDouble(Head(bytes)), Tail(bytes)>>)
      [] schema.kind = "Bytes" ->
           LET len == ReadLong(bytes) IN
           IF ~IsOk(len) THEN ValueError
           ELSE IF len[2][1] < 0 \/ len[2][1] > Len(len[2][2]) THEN ValueError
           ELSE Ok(<<VBytes(Take(len[2][2], len[2][1])), Drop(len[2][2], len[2][1])>>)
      [] schema.kind = "String" ->
           LET string == DecodeString(bytes)
           IN IF IsOk(string) THEN Ok(<<VString(string[2][1]), string[2][2]>>) ELSE ValueError
      [] schema.kind = "Fixed" ->
           IF schema.size > Len(bytes) THEN ValueError
           ELSE Ok(<<VFixed(schema.size, Take(bytes, schema.size)), Drop(bytes, schema.size)>>)
      [] schema.kind = "Enum" ->
           LET index == ReadLong(bytes) IN
           IF ~IsOk(index) THEN ValueError
           ELSE IF index[2][1] < 0 \/ index[2][1] >= Len(schema.symbols) THEN ValueError
           ELSE Ok(<<VEnum(index[2][1], schema.symbols[index[2][1] + 1]), index[2][2]>>)
      [] schema.kind = "Union" ->
           LET index == ReadLong(bytes) IN
           IF ~IsOk(index) THEN ValueError
           ELSE IF index[2][1] < 0 \/ index[2][1] >= Len(schema.variants) THEN ValueError
           ELSE LET item == decode(schema.variants[index[2][1] + 1], index[2][2]) IN
                IF IsOk(item) THEN Ok(<<VUnion(item[2][1]), item[2][2]>>) ELSE ValueError
      [] schema.kind = "Array" -> DecodeArrayBlocks(schema.items, bytes, <<>>)
      [] schema.kind = "Map" -> DecodeMapBlocks(schema.values, bytes, EmptyMap)
      [] schema.kind = "Record" -> DecodeFields(schema.fields, bytes, <<>>)

\* from_avro_datum with no reader schema
from_avro_datum(schema, bytes) ==
    LET r == decode(schema, bytes) IN IF IsOk(r) THEN Ok(r[2][1]) ELSE ValueError

(***************************************************************************)
(* The inputs: the schemas a Schema object is built from and the Python    *)
(* objects handed to write.                                                *)
(***************************************************************************)
Symbols == <<"A", "B">>
NullableString == SUnion(<<SPrim("Null"), SPrim("String")>>)

\* Parsed schemas: the kinds of a union are distinct, as are the symbols of
\* an enum and the field names of a record (Schema::parse_str rejects the rest).
SchemaList == <<
    SPrim("Null"), SPrim("Boolean"), SPrim("Int"), SPrim("Long"),
    SPrim("Float"), SPrim("Double"), SPrim("Bytes"), SPrim("String"),
    SFixed(2), SEnum(Symbols),
    SArray(SPrim("Int")), SArray(SPrim("String")), SArray(SEnum(Symbols)),
    SMap(SPrim("Long")), SMap(SEnum(Symbols)),
    NullableString,
    SUnion(<<SPrim("String"), SPrim("Null")>>),
    SUnion(<<SPrim("Int"), SPrim("Long")>>),
    SUnion(<<SPrim("Long"), SPrim("Int")>>),
    SUnion(<<SPrim("String"), SEnum(Symbols)>>),
    SUnion(<<SEnum(Symbols), SPrim("String")>>),
    SUnion(<<SPrim("Float"), SPrim("Double")>>),
    SUnion(<<SArray(SPrim("Int")), SPrim("Bytes")>>),
    SUnion(<<SRecord(<<SField("a", SPrim("String"))>>), SMap(SEnum(Symbols))>>),
    SUnion(<<SMap(SPrim("Long")), SRecord(<<SField("a", SEnum(Symbols))>>)>>),
    SRecord(<<SField("a", SPrim("Long")), SField("b", NullableString)>>),
    SRecord(<<SField("b", SPrim("Int")), SField("a", SEnum(Symbols))>>),
    SRecord(<<SField("a", SUnion(<<SPrim("Int"), SPrim("String")>>))>>),
    SArray(SUnion(<<SPrim("Null"), SPrim("Int")>>)),
    SArray(SArray(SPrim("Int"))),
    SArray(SRecord(<<SField("a", SPrim("Int"))>>)),
    SMap(SArray(SPrim("String"))),
    SRecord(<<SField("a", SRecord(<<SField("a",
        SArray(SUnion(<<SPrim("Null"), SEnum(Symbols)>>)))>>))>>)
>>

\* Sequences over S of length lo..hi
Seqs(S, lo, hi) == UNION {[1..n -> S] : n \in lo..hi}

\* Dicts of n entries over the keys K and the values S, in every key order
DictsOf(K, S, n) ==
    {e \in [1..n -> K \X S] : \A i, j \in 1..n : i # j => e[i][1] # e[j][1]}

PyInts == {0 - 1, 0, 1, 2, I32Max + 1, I64Max + 1}
ScalarValues ==
    {PyNone, PyBool(TRUE)} \cup {PyInt(n) : n \in PyInts}
    \cup {PyFloat(1), PyFloat(FracSteps)}
    \cup {PyStr("A"), PyStr("z")}
    \cup {PyBytesObj(<<1, 2>>), PyBytesObj(<<1>>)}

ListItems == {PyNone, PyInt(1), PyInt(2), PyInt(I32Max + 1), PyStr("A"), PyStr("z")}
DictKeys == {"a", "b", NonTextKey}
DictItems == {PyNone, PyInt(0), PyInt(1), PyStr("A")}
NestedItems ==
    { PyListObj(<<>>), PyListObj(<<PyInt(1)>>), PyListObj(<<PyStr("z")>>),
      PyDictObj(<< <<"a", PyInt(1)>> >>),
      PyDictObj(<< <<"b", PyInt(0)>>, <<"a", PyStr("A")>> >>) }
DeepValues ==
    { PyDictObj(<< <<"a", PyDictObj(<< <<"a", PyListObj(<<PyNone, PyStr("A"), PyInt(1)>>)>> >>)>> >>),
      PyDictObj(<< <<"a", PyDictObj(<< <<"a", PyListObj(<<PyStr("B"), PyInt(2)>>)>> >>)>> >>) }

Values ==
    ScalarValues
    \cup {PyListObj(l) : l \in Seqs(ListItems, 0, MaxListLen)}
    \cup {PyDictObj(e) : e \in UNION {DictsOf(DictKeys, DictItems, n) : n \in 0..MaxDictLen}}
    \cup {PyListObj(l) : l \in Seqs(NestedItems, 1, MaxListLen)}
    \cup {PyDictObj(e) : e \in UNION {DictsOf({"a", "b"}, NestedItems, n) : n \in 1..MaxDictLen}}
    \cup DeepValues

\* Bytes handed to read by a caller that has written nothing
JunkInputs == {<<>>, <<0>>, <<2, 1>>}
Prefixes(bytes) == {SubSeq(bytes, 1, n) : n \in 0..Len(bytes)}

(***************************************************************************)
(* The Schema object and its methods                                       *)
(***************************************************************************)
VARIABLES
    schema,     \* Schema.schema
    pc,         \* the last method called: "new", "write" or "read"
    datum,      \* the argument of the last write
    value,      \* what to_avro_value returned in the last write
    written,    \* what the last write returned
    input,      \* the argument of the last read
    decoded,    \* what from_avro_datum returned in the last read
    readOut     \* what the last read returned

vars == <<schema, pc, datum, value, written, input, decoded, readOut>>

NoCall == Err("NoCall")

\* The methods take &self and keep nothing between calls: what a call returns
\* depends on the schema and on its argument alone.  The model therefore
\* follows one object from its construction through one write to the reads
\* that follow it.

\* Schema::new on a schema text that parses
New(s) ==
    /\ pc = "new"
    /\ schema' = s
    /\ pc' = "new"
    /\ datum' = PyNone
    /\ value' = NoCall
    /\ written' = NoCall
    /\ input' = <<>>
    /\ decoded' = NoCall
    /\ readOut' = NoCall

Init ==
    /\ schema \in Range(SchemaList)
    /\ pc = "new"
    /\ datum = PyNone
    /\ value = NoCall
    /\ written = NoCall
    /\ input = <<>>
    /\ decoded = NoCall
    /\ readOut = NoCall

\* What write returns once to_avro_value has returned v
WriteResult(s, v) == IF IsOk(v) THEN to_avro_datum(s, v[2]) ELSE v

\* Schema::write
Write(d) ==
    /\ pc = "new"
    /\ datum' = d
    /\ value' = to_avro_value(d, schema)
    /\ written' = WriteResult(schema, to_avro_value(d, schema))
    /\ pc' = "write"
    /\ input' = <<>>
    /\ decoded' = NoCall
    /\ readOut' = NoCall
    /\ UNCHANGED schema

\* What read returns once from_avro_datum has returned v
ReadResult(v) == IF IsOk(v) THEN Ok(to_pyobject(v[2])) ELSE v

\* Schema::read
Read(bytes) ==
    /\ input' = bytes
    /\ decoded' = from_avro_datum(schema, bytes)
    /\ readOut' = ReadResult(from_avro_datum(schema, bytes))
    /\ pc' = "read"
    /\ UNCHANGED <<schema, datum, value, written>>

ReadInputs == JunkInputs \cup (IF IsOk(written) THEN Prefixes(written[2]) ELSE {})

Next ==
    \/ \E i \in 1..Len(SchemaList) : New(SchemaList[i])
    \/ \E d \in Values : Write(d)
    \/ \E bytes \in ReadInputs : Read(bytes)

Spec == Init /\ [][Next]_vars

(***************************************************************************)
(* Properties                                                              *)
(***************************************************************************)
AfterWrite == pc = "write"
\* An encode-time failure: the TypeMismatch of the specification
TypeMismatch(r) == r \in {TypeError, OverflowError}
Min(S) == CHOOSE i \in S : \A j \in S : i <= j
Accepting(d, variants) == {i \in 1..Len(variants) : IsOk(to_avro_value(d, variants[i]))}
HasNullVariant(variants) == \E i \in 1..Len(variants) : variants[i].kind = "Null"

\* C2 (union first-match).  write of a datum that is not None against a union
\* returns Union(x), x being what the lowest-indexed variant that accepts the
\* datum encodes it to; when no variant accepts it, the encode fails with a
\* type mismatch.
UnionFirstMatch ==
    (AfterWrite /\ schema.kind = "Union" /\ ~is_none(datum)) =>
        LET ok == Accepting(datum, schema.variants) IN
        IF ok = {} THEN value = TypeError
        ELSE value = Ok(VUnion(to_avro_value(datum, schema.variants[Min(ok)])[2]))

\* [Int, Long] and an integer that fits both: Int is chosen
UnionFirstMatchWitness ==
    /\ AfterWrite
    /\ schema = SUnion(<<SPrim("Int"), SPrim("Long")>>)
    /\ datum = PyInt(1)
    /\ IsOk(to_avro_value(datum, SPrim("Long")))
    /\ value = Ok(VUnion(VInt(1)))

\* C3 as stated (null shortcut at any position).  A union with a Null variant
\* anywhere encodes None to Union(Null) and calls to_avro_value on no variant.
NullShortcutAnyPosition ==
    (AfterWrite /\ schema.kind = "Union" /\ HasNullVariant(schema.variants) /\ is_none(datum)) =>
        /\ value = Ok(VUnion(VNull))
        /\ UnionAttempts(datum, schema.variants) = {}

\* C3 (null shortcut), amended.  A union with a Null variant anywhere encodes
\* None to Union(Null); no variant is tried when Null is the first variant,
\* and otherwise exactly the variants up to Null are tried, each before it
\* failing on None.
NullShortcut ==
    (AfterWrite /\ schema.kind = "Union" /\ HasNullVariant(schema.variants) /\ is_none(datum)) =>
        LET variants == schema.variants
            null == Min({i \in 1..Len(variants) : variants[i].kind = "Null"})
        IN /\ value = Ok(VUnion(VNull))
           /\ null = 1 => UnionAttempts(datum, variants) = {}
           /\ null > 1 => /\ UnionAttempts(datum, variants) = 1..null
                          /\ \A j \in 1..(null - 1) : ~IsOk(to_avro_value(datum, variants[j]))

\* Null is the second variant: String is tried on None first
NullShortcutWitness ==
    /\ AfterWrite
    /\ schema = SUnion(<<SPrim("String"), SPrim("Null")>>)
    /\ is_none(datum)
    /\ UnionAttempts(datum, schema.variants) = {1, 2}
    /\ value = Ok(VUnion(VNull))
    /\ written = Ok(<<2>>)

\* Every order of the entries of a dict
Orders(entries) ==
    {[i \in 1..Len(entries) |-> entries[f[i]]] :
        f \in {g \in [1..Len(entries) -> 1..Len(entries)] :
                  \A i, j \in 1..Len(entries) : i # j => g[i] # g[j]}}
FieldNames(fields) == {fields[i].name : i \in 1..Len(fields)}
\* The entries whose key is in `keys`, in their order
Keep(entries, keys) == SelectSeq(entries, LAMBDA e : e[1] \in keys)

\* C4 (record field order).  A successful encode of a dict against a record
\* returns one (name, value) pair per declared field, in declared order, each
\* value being the encoding of the dict's entry of that name; the result is
\* the same for every order of the dict's entries and with the undeclared
\* keys removed.
RecordFieldOrder ==
    (AfterWrite /\ schema.kind = "Record" /\ IsOk(value)) =>
        LET fields == schema.fields
            result == value[2].fields
        IN /\ datum[1] = "dict"
           /\ value[2].t = "Record"
           /\ Len(result) = Len(fields)
           /\ \A i \in 1..Len(fields) :
                /\ result[i][1] = fields[i].name
                /\ HasKey(datum[2], fields[i].name)
                /\ Ok(result[i][2]) = to_avro_value(get_item(datum[2], fields[i].name), fields[i].schema)
           /\ \A e \in Orders(datum[2]) : to_avro_value(PyDictObj(e), schema) = value
           /\ to_avro_value(PyDictObj(Keep(datum[2], FieldNames(fields))), schema) = value

\* keys in reverse declared order, with an undeclared key between them
RecordFieldOrderWitness ==
    /\ AfterWrite
    /\ schema = SRecord(<<SField("a", SPrim("Long")), SField("b", NullableString)>>)
    /\ datum = PyDictObj(<< <<"b", PyStr("A")>>, <<NonTextKey, PyInt(0)>>, <<"a", PyInt(1)>> >>)
    /\ value = Ok(VRecord(<< <<"a", VLong(1)>>, <<"b", VUnion(VString("A"))>> >>))
    /\ IsOk(written)

\* C5 (missing field).  Encoding a dict against a record fails with a type
\* mismatch, and write returns that error, whenever a declared field name is
\* not a key of the dict, whatever the field's schema.
MissingFieldFails ==
    (AfterWrite /\ schema.kind = "Record" /\ datum[1] = "dict"
        /\ \E i \in 1..Len(schema.fields) : ~HasKey(datum[2], schema.fields[i].name)) =>
        /\ TypeMismatch(value)
        /\ written = value

\* the absent field is the nullable one, and every field present encodes
MissingFieldWitness ==
    /\ AfterWrite
    /\ schema = SRecord(<<SField("a", SPrim("Long")), SField("b", NullableString)>>)
    /\ datum = PyDictObj(<< <<"a", PyInt(1)>> >>)
    /\ ~IsOk(written)

\* C6 (enum bounds).  Against an enum, a str equal to symbols[i] encodes to
\* Enum(i, str) and a str that is no symbol fails; an int i encodes to
\* Enum(i, symbols[i]) when 0 <= i < len(symbols) and fails otherwise, the
\* negative ones included.
EnumBounds ==
    (AfterWrite /\ schema.kind = "Enum") =>
        LET symbols == schema.symbols IN
        /\ datum[1] = "str" =>
             IF datum[2] \in Range(symbols)
             THEN \E i \in 1..Len(symbols) :
                     symbols[i] = datum[2] /\ value = Ok(VEnum(i - 1, datum[2]))
             ELSE TypeMismatch(value)
        /\ datum[1] = "int" =>
             IF 0 <= datum[2] /\ datum[2] < Len(symbols)
             THEN value = Ok(VEnum(datum[2], symbols[datum[2] + 1]))
             ELSE TypeMismatch(value)

\* a negative index is refused
EnumBoundsWitness ==
    /\ AfterWrite
    /\ schema = SEnum(Symbols)
    /\ datum = PyInt(0 - 1)
    /\ value = TypeError

\* The same Python object: type and content alike, a dict whatever the order
\* of its entries
RECURSIVE SameObject(_, _)
SameObject(a, b) ==
    IF a[1] # b[1] THEN FALSE
    ELSE CASE a[1] = "list" ->
                /\ Len(a[2]) = Len(b[2])
                /\ \A i \in 1..Len(a[2]) : SameObject(a[2][i], b[2][i])
           [] a[1] = "dict" ->
                /\ {a[2][i][1] : i \in 1..Len(a[2])} = {b[2][i][1] : i \in 1..Len(b[2])}
                /\ \A i \in 1..Len(a[2]) : SameObject(a[2][i][2], get_item(b[2], a[2][i][1]))
           [] OTHER -> a[2] = b[2]

\* Equality in the widest sense: numbers by their value whatever their type
\* (True = 1 = 1.0), a bytes object and a list by their items, dicts by their
\* entries whatever the order
RECURSIVE DynEq(_, _)
DynEq(a, b) ==
    CASE ExtractF64(a)[1] = "Ok" /\ ExtractF64(b)[1] = "Ok" -> ExtractF64(a)[2] = ExtractF64(b)[2]
      [] a[1] \in {"list", "bytes"} /\ b[1] \in {"list", "bytes"} ->
           /\ Len(a[2]) = Len(b[2])
           /\ \A i \in 1..Len(a[2]) : DynEq(SequenceItems(a)[i], SequenceItems(b)[i])
      [] a[1] = "dict" /\ b[1] = "dict" ->
           /\ {a[2][i][1] : i \in 1..Len(a[2])} = {b[2][i][1] : i \in 1..Len(b[2])}
           /\ \A i \in 1..Len(a[2]) : DynEq(a[2][i][2], get_item(b[2], a[2][i][1]))
      [] a[1] = "str" /\ b[1] = "str" -> a[2] = b[2]
      [] a[1] = "none" /\ b[1] = "none" -> TRUE
      [] OTHER -> FALSE

\* read was handed the bytes the write before it returned
ReadBack == pc = "read" /\ IsOk(written) /\ input = written[2]

\* C1 as stated (round trip).  Whenever write(S, V) succeeds, reading the
\* bytes back yields an object equal to V, be it in the widest sense.
RoundTripEveryValue ==
    ReadBack => (IsOk(readOut) /\ DynEq(readOut[2], datum))

\* V is, at every level, of the form to_pyobject gives a value of the schema:
\* None for Null, a bool for Boolean, an int in range for Int and Long, a float
\* for Double and one that an f32 holds for Float, a str for String, a symbol
\* as str for an enum, a list of byte ints for Bytes and (of the declared
\* size) for Fixed, a list for an array, a dict with str keys for a map, a
\* dict with exactly the declared keys for a record, and for a union the form
\* of the first variant that accepts V.
RECURSIVE Decoded(_, _)
Decoded(d, s) ==
    CASE s.kind = "Null" -> is_none(d)
      [] s.kind = "Boolean" -> d[1] = "bool"
      [] s.kind = "Int" -> d[1] = "int" /\ I32Min <= d[2] /\ d[2] <= I32Max
      [] s.kind = "Long" -> d[1] = "int" /\ I64Min <= d[2] /\ d[2] <= I64Max
      [] s.kind = "Float" -> d[1] = "float" /\ d[2] % FracSteps = 0
      [] s.kind = "Double" -> d[1] = "float"
      [] s.kind = "String" -> d[1] = "str"
      [] s.kind = "Enum" -> d[1] = "str" /\ d[2] \in Range(s.symbols)
      [] s.kind \in {"Bytes", "Fixed"} ->
           /\ d[1] = "list"
           /\ \A i \in 1..Len(d[2]) : d[2][i][1] = "int" /\ d[2][i][2] \in 0..U8Max
           /\ s.kind = "Fixed" => Len(d[2]) = s.size
      [] s.kind = "Array" ->
           d[1] = "list" /\ \A i \in 1..Len(d[2]) : Decoded(d[2][i], s.items)
      [] s.kind = "Map" ->
           d[1] = "dict" /\ \A i \in 1..Len(d[2]) : IsText(d[2][i][1]) /\ Decoded(d[2][i][2], s.values)
      [] s.kind = "Record" ->
           /\ d[1] = "dict"
           /\ {d[2][i][1] : i \in 1..Len(d[2])} = FieldNames(s.fields)
           /\ \A i \in 1..Len(s.fields) :
                Decoded(get_item(d[2], s.fields[i].name), s.fields[i].schema)
      [] s.kind = "Union" ->
           /\ Accepting(d, s.variants) # {}
           /\ Decoded(d, s.variants[Min(Accepting(d, s.variants))])

\* C1 (round trip), amended.  Whenever write(S, V) succeeds and V is of the
\* decoded form of S, reading the bytes back yields the same object as V.
RoundTrip ==
    (ReadBack /\ Decoded(datum, schema)) => (IsOk(readOut) /\ SameObject(readOut[2], datum))

\* a record with a nullable field set to None, its keys out of order
RoundTripWitness ==
    /\ ReadBack
    /\ schema = SRecord(<<SField("a", SPrim("Long")), SField("b", NullableString)>>)
    /\ datum = PyDictObj(<< <<"b", PyNone>>, <<"a", PyInt(1)>> >>)
    /\ Decoded(datum, schema)
    /\ readOut = Ok(PyDictObj(<< <<"a", PyInt(1)>>, <<"b", PyNone>> >>))

\* What a Value must become: the mapping rules of the decoder, as a relation
RECURSIVE DecodesTo(_, _)
DecodesTo(v, d) ==
    CASE v.t = "Null" -> d = PyNone
      [] v.t = "Boolean" -> d = <<"bool", v.b>>
      [] v.t \in {"Int", "Long"} -> d = <<"int", v.n>>
      [] v.t \in {"Float", "Double"} -> d = <<"float", v.x>>
      [] v.t = "String" -> d = <<"str", v.s>>
      [] v.t \in {"Bytes", "Fixed"} ->
           /\ d[1] = "list" /\ Len(d[2]) = Len(v.bytes)
           /\ \A i \in 1..Len(v.bytes) : d[2][i] = <<"int", v.bytes[i]>>
      [] v.t = "Enum" -> d = <<"str", v.symbol>>
      [] v.t = "Union" -> DecodesTo(v.item, d)
      [] v.t = "Array" ->
           /\ d[1] = "list" /\ Len(d[2]) = Len(v.items)
           /\ \A i \in 1..Len(v.items) : DecodesTo(v.items[i], d[2][i])
      [] v.t = "Map" ->
           /\ d[1] = "dict" /\ Len(d[2]) = Cardinality(DOMAIN v.entries)
           /\ \A k \in DOMAIN v.entries :
                HasKey(d[2], k) /\ DecodesTo(v.entries[k], get_item(d[2], k))
      [] v.t = "Record" ->
           /\ d[1] = "dict" /\ Len(d[2]) = Len(v.fields)
           /\ \A i \in 1..Len(v.fields) :
                d[2][i][1] = v.fields[i][1] /\ DecodesTo(v.fields[i][2], d[2][i][2])
      [] OTHER -> d = PyNone

\* C8 (total decode).  read fails exactly when from_avro_datum rejects the
\* bytes, and with its error; every Value from_avro_datum returns becomes a
\* Python object by the decoder's rules: a union becomes what its item
\* becomes, an enum its symbol, a fixed its bytes.
TotalDecode ==
    pc = "read" =>
        /\ IsOk(readOut) <=> IsOk(decoded)
        /\ ~IsOk(decoded) => readOut = ValueError /\ decoded = ValueError
        /\ IsOk(decoded) => DecodesTo(decoded[2], readOut[2])

\* an enum inside a union, read back as its symbol
TotalDecodeWitness ==
    /\ pc = "read"
    /\ schema = SUnion(<<SPrim("String"), SEnum(Symbols)>>)
    /\ decoded = Ok(VUnion(VEnum(1, "B")))
    /\ readOut = Ok(PyStr("B"))

\* A Value matches a schema: the tag is the schema's kind at every level, a
\* union wraps a value matching one of its variants, an enum's ordinal indexes
\* the symbols and its symbol is the one there.  `sized` says whether a
\* fixed's size must be the declared one or the length of its bytes.
RECURSIVE Matches(_, _, _)
Matches(v, s, sized) ==
    IF v.t # s.kind THEN FALSE
    ELSE CASE v.t = "Fixed" ->
                IF sized THEN v.size = s.size ELSE v.size = Len(v.bytes)
           [] v.t = "Enum" ->
                /\ 0 <= v.ordinal /\ v.ordinal < Len(s.symbols)
                /\ v.symbol = s.symbols[v.ordinal + 1]
           [] v.t = "Union" ->
                \E i \in 1..Len(s.variants) : Matches(v.item, s.variants[i], sized)
           [] v.t = "Array" ->
                \A i \in 1..Len(v.items) : Matches(v.items[i], s.items, sized)
           [] v.t = "Map" ->
                \A k \in DOMAIN v.entries : Matches(v.entries[k], s.values, sized)
           [] v.t = "Record" ->
                /\ Len(v.fields) = Len(s.fields)
                /\ \A i \in 1..Len(s.fields) :
                     /\ v.fields[i][1] = s.fields[i].name
                     /\ Matches(v.fields[i][2], s.fields[i].schema, sized)
           [] OTHER -> TRUE

\* C9 as stated (well-typed values).  Every Value a successful to_avro_value
\* returns matches the schema at every level, a fixed having the declared size.
WellTypedDeclaredSize ==
    (AfterWrite /\ IsOk(value)) => Matches(value[2], schema, TRUE)

\* C9 (well-typed values), amended.  Every Value a successful to_avro_value
\* returns matches the schema at every level, except that the size of a fixed
\* is the length of the bytes supplied, which need not be the declared size.
WellTyped ==
    (AfterWrite /\ IsOk(value)) => Matches(value[2], schema, FALSE)

\* an enum chosen by index inside a union inside an array inside two records
WellTypedWitness ==
    /\ AfterWrite
    /\ IsOk(value)
    /\ schema.kind = "Record"
    /\ datum \in DeepValues
    /\ value[2].fields[1][2].fields[1][2].items[3] = VUnion(VEnum(1, "B"))

\* Schemas without a union at any level
RECURSIVE UnionFree(_)
UnionFree(s) ==
    CASE s.kind = "Union" -> FALSE
      [] s.kind = "Array" -> UnionFree(s.items)
      [] s.kind = "Map" -> UnionFree(s.values)
      [] s.kind = "Record" -> \A i \in 1..Len(s.fields) : UnionFree(s.fields[i].schema)
      [] OTHER -> TRUE

\* What the Value of the last write decodes to, encoded again
Reencoded == to_avro_value(to_pyobject(value[2]), schema)

UpToFirst(calls, stopOnOk) ==
    LET stop == {i \in 1..Len(calls) : IsOk(to_avro_value(calls[i][1], calls[i][2])) = stopOnOk}
    IN IF stop = {} THEN calls ELSE SubSeq(calls, 1, Min(stop))

\* The entries before the first whose key is no str or that the dict lacks
Before(calls, bad) == IF bad = {} THEN calls ELSE SubSeq(calls, 1, Min(bad) - 1)

Calls(d, s) ==
    CASE s.kind = "Array" /\ IsPySequence(d) ->
           UpToFirst([i \in 1..Len(SequenceItems(d)) |-> <<SequenceItems(d)[i], s.items>>], FALSE)
      [] s.kind = "Map" /\ d[1] = "dict" ->
           UpToFirst(Before([i \in 1..Len(d[2]) |-> <<d[2][i][2], s.values>>],
                            {i \in 1..Len(d[2]) : ~IsText(d[2][i][1])}), FALSE)
      [] s.kind = "Record" /\ d[1] = "dict" ->
           LET absent == {i \in 1..Len(s.fields) : ~HasKey(d[2], s.fields[i].name)}
               present == IF absent = {} THEN Len(s.fields) ELSE Min(absent) - 1
           IN UpToFirst([i \in 1..present |->
                            <<get_item(d[2], s.fields[i].name), s.fields[i].schema>>], FALSE)
      [] s.kind = "Union" /\ ~(is_nullable(s.variants) /\ is_none(d)) ->
           UpToFirst([i \in 1..Len(s.variants) |-> <<d, s.variants[i]>>], TRUE)
      [] OTHER -> <<>>

\* Some call of to_avro_value made while encoding d against s fails
RECURSIVE AnyFailure(_, _)
AnyFailure(d, s) ==
    \/ ~IsOk(to_avro_value(d, s))
    \/ \E i \in 1..Len(Calls(d, s)) : AnyFailure(Calls(d, s)[i][1], Calls(d, s)[i][2])

\* Some call made while encoding d against s fails outside every attempt at a
\* union variant
RECURSIVE FailureOutsideUnion(_, _)
FailureOutsideUnion(d, s) ==
    \/ ~IsOk(to_avro_value(d, s))
    \/ /\ s.kind # "Union"
       /\ \E i \in 1..Len(Calls(d, s)) : FailureOutsideUnion(Calls(d, s)[i][1], Calls(d, s)[i][2])

\* At every call made while encoding d against s: an array, a map or a record
\* one of whose own calls fails, fails with that error
RECURSIVE Propagates(_, _)
Propagates(d, s) ==
    /\ s.kind \in {"Array", "Map", "Record"} =>
         \A i \in 1..Len(Calls(d, s)) :
            ~IsOk(to_avro_value(Calls(d, s)[i][1], Calls(d, s)[i][2])) =>
                to_avro_value(d, s) = to_avro_value(Calls(d, s)[i][1], Calls(d, s)[i][2])
    /\ \A i \in 1..Len(Calls(d, s)) : Propagates(Calls(d, s)[i][1], Calls(d, s)[i][2])

\* C7 as stated (all or nothing).  Any failure at any depth aborts write, which
\* returns an error and no bytes: no error is recovered from.
AnyFailureAborts ==
    (AfterWrite /\ AnyFailure(datum, schema)) => ~IsOk(written)

\* C7 (all or nothing), amended.  The failure of an array element, a map value
\* or a record field is at once the failure of the enclosing encode, at every
\* depth; a failure outside every attempt at a union variant aborts write; and
\* when the encode fails write returns its error and no bytes.  (A union does
\* recover from a variant that fails: it tries the next.)
AllOrNothing ==
    AfterWrite =>
        /\ Propagates(datum, schema)
        /\ FailureOutsideUnion(datum, schema) => ~IsOk(value)
        /\ ~IsOk(value) => (TypeMismatch(value) /\ written = value)

\* the first list encodes, the element of the second fails: no partial array
AllOrNothingWitness ==
    /\ AfterWrite
    /\ schema = SArray(SArray(SPrim("Int")))
    /\ datum = PyListObj(<<PyListObj(<<PyInt(1)>>), PyListObj(<<PyStr("z")>>)>>)
    /\ IsOk(to_avro_value(datum[2][1], schema.items))
    /\ value = TypeError
    /\ written = TypeError

====
